---- MODULE Spec2Model ----
(***************************************************************************)
(* Model of 3_Model/model_definition_evaluation.ipynb.                    *)
(*                                                                         *)
(* The feature engineering cell: per-farm forecast loading and renaming,  *)
(* the outer merge across farms, the left merge onto train, lag / rolling *)
(* / calendar features, the missing-value filter, the X / y alignment and *)
(* the chronological train/test split.                                    *)
(*                                                                         *)
(* The recurrent model's data in the final cell: min-max scaling of X and *)
(* y, the sliding windows, the 80/20 cut of the samples, the model build  *)
(* and the targets its metrics are computed against (specification Spec). *)
(*                                                                         *)
(* The manual hyperparameter search of the tuning cell, whose held-out    *)
(* MAE per configuration is an outcome of the training library            *)
(* (specification SearchSpec).                                            *)
(*                                                                         *)
(* A cell of a table is a rational <<num, den>> with den > 0, in lowest   *)
(* terms; the missing value (NaN) is <<0, 0>>.  A frame is a record       *)
(*   [cols : sequence of column names, idx : sequence of row labels,      *)
(*    rows : sequence of functions column name -> cell].                  *)
(* The column wp1_rollstd{w} holds the sample variance (ddof = 1), whose  *)
(* square root is the value pandas stores.                                *)
(***************************************************************************)
EXTENDS Integers, Sequences, FiniteSets, TLC

VARIABLES train, wf_files, wf_dfs, wf_merged, df, df_feat, X, y,
          X_train, X_test, y_train, y_test, stage, error,
          X_scaled, y_scaled, X_lstm, y_lstm,
          X_train_lstm, X_test_lstm, y_train_lstm, y_test_lstm,
          y_test_lstm_inv, best_mae, best_params, maes,
          units, dropout, epochs

\* The variables of the recurrent-model cells; maes is the list of the MAE
\* values the search has printed so far.
lstmVars == <<X_scaled, y_scaled, X_lstm, y_lstm,
              X_train_lstm, X_test_lstm, y_train_lstm, y_test_lstm,
              y_test_lstm_inv, best_mae, best_params, maes,
              units, dropout, epochs>>

vars == <<train, wf_files, wf_dfs, wf_merged, df, df_feat, X, y,
          X_train, X_test, y_train, y_test, stage, error, lstmVars>>

(***************************************************************************)
(* Bounds of the model (sizes of the input files).                        *)
(***************************************************************************)
MinRows == 11
MaxRows == 16
LongRows == 21
MaxWp == 1
PatLen == 4
MaxFarms == 2
MaxStep == 2
MaxHors == 2
StartDay == 20090701
StartHour == 20
MaxMae == 2

(***************************************************************************)
(* Cells.                                                                  *)
(***************************************************************************)
NaN == <<0, 0>>
Num(n) == <<n, 1>>
IsNaN(c) == c[2] = 0

\* float('inf'), the one cell that is neither a value nor missing.
Inf == <<1, 0>>

\* A name the notebook has not bound yet, and Python's None.
Unbound == <<>>
None == <<"None">>

Abs(n) == IF n < 0 THEN -n ELSE n

RECURSIVE Gcd(_, _)
Gcd(a, b) == IF b = 0 THEN a ELSE Gcd(b, a % b)

Rat(n, d) == LET g == Gcd(Abs(n), d) IN <<n \div g, d \div g>>

\* Arithmetic and order of cells that hold a value.
RatAdd(a, b) == Rat(a[1] * b[2] + b[1] * a[2], a[2] * b[2])
RatSub(a, b) == Rat(a[1] * b[2] - b[1] * a[2], a[2] * b[2])
RatMul(a, b) == Rat(a[1] * b[1], a[2] * b[2])
RatDiv(a, b) == Rat(a[1] * b[2], a[2] * b[1])
RatLess(a, b) == a[1] * b[2] < b[1] * a[2]

(***************************************************************************)
(* Frames.                                                                 *)
(***************************************************************************)
EmptyFrame == [cols |-> <<>>, idx |-> <<>>, rows |-> <<>>]

NRows(f) == Len(f.rows)

Range(s) == {s[i] : i \in DOMAIN s}

HasCol(f, c) == c \in Range(f.cols)

RangeIndex(n) == [i \in 1..n |-> i - 1]

\* The column c of a frame as a sequence of cells, in row order.
Column(f, c) == [i \in 1..NRows(f) |-> f.rows[i][c]]

\* df[c] = vals : a new column appended on the right (or overwritten in
\* place when it exists); rows, row order and other columns are untouched.
SetColumn(f, c, vals) ==
    [cols |-> IF HasCol(f, c) THEN f.cols ELSE Append(f.cols, c),
     idx  |-> f.idx,
     rows |-> [i \in 1..NRows(f) |->
                 [k \in DOMAIN f.rows[i] \cup {c} |->
                     IF k = c THEN vals[i] ELSE f.rows[i][k]]]]

\* df[[c1, c2, ...]] : the projection on a list of columns.
Project(f, cs) ==
    [cols |-> cs,
     idx  |-> f.idx,
     rows |-> [i \in 1..NRows(f) |-> [k \in Range(cs) |-> f.rows[i][k]]]]

\* Positional slice of rows lo..hi (1-based, inclusive), labels kept.
RowSlice(f, lo, hi) ==
    [cols |-> f.cols,
     idx  |-> SubSeq(f.idx, lo, hi),
     rows |-> SubSeq(f.rows, lo, hi)]

\* The rows of a frame whose join key (the cells of the columns `on`) is key.
KeyOf(row, on) == [k \in 1..Len(on) |-> row[on[k]]]

Matching(f, on, key) ==
    LET Hit(row) == KeyOf(row, on) = key IN SelectSeq(f.rows, Hit)

\* Lexicographic order of join keys (tuples of non-missing cells).
RECURSIVE KeyLess(_, _, _)
KeyLess(a, b, k) ==
    IF k > Len(a) THEN FALSE
    ELSE IF a[k][1] * b[k][2] # b[k][1] * a[k][2]
         THEN a[k][1] * b[k][2] < b[k][1] * a[k][2]
         ELSE KeyLess(a, b, k + 1)

RECURSIVE SortKeys(_)
SortKeys(S) ==
    IF S = {} THEN <<>>
    ELSE LET m == CHOOSE a \in S : \A b \in S \ {a} : KeyLess(a, b, 1)
         IN  <<m>> \o SortKeys(S \ {m})

RECURSIVE Flatten(_)
Flatten(ss) == IF ss = <<>> THEN <<>> ELSE Head(ss) \o Flatten(Tail(ss))

\* Columns of `cs` that are not join keys.
NonKey(cs, on) == LET Keep(c) == c \notin Range(on) IN SelectSeq(cs, Keep)

\* One row of a merge result: the key cells, then the left row's and the
\* right row's other cells; a side that has no row for the key is NaN.
JoinRow(l, r, on, key, lrow, rrow, lhit, rhit) ==
    [c \in Range(l.cols) \cup Range(r.cols) |->
        IF c \in Range(on)
        THEN key[CHOOSE k \in 1..Len(on) : on[k] = c]
        ELSE IF c \in Range(l.cols)
             THEN (IF lhit THEN lrow[c] ELSE NaN)
             ELSE (IF rhit THEN rrow[c] ELSE NaN)]

\* The rows a key contributes to a merge: the product of the left and the
\* right rows holding it, left-major; one NaN-padded row per unmatched row.
KeyRows(l, r, on, key) ==
    LET lm == Matching(l, on, key)
        rm == Matching(r, on, key)
    IN  IF rm = <<>>
        THEN [i \in 1..Len(lm) |-> JoinRow(l, r, on, key, lm[i], lm[i], TRUE, FALSE)]
        ELSE IF lm = <<>>
        THEN [j \in 1..Len(rm) |-> JoinRow(l, r, on, key, rm[j], rm[j], FALSE, TRUE)]
        ELSE Flatten([i \in 1..Len(lm) |->
                 [j \in 1..Len(rm) |->
                     JoinRow(l, r, on, key, lm[i], rm[j], TRUE, TRUE)]])

\* pd.merge raises KeyError when a key column is absent from either side.
MergeKeysOk(l, r, on) == \A c \in Range(on) : HasCol(l, c) /\ HasCol(r, c)

\* The merge with how='inner' (the default of pd.merge): only the keys that
\* both sides hold.
InnerMerge(l, r, on) ==
    LET rows == Flatten([i \in 1..NRows(l) |->
                   LET key == KeyOf(l.rows[i], on)
                       rm  == Matching(r, on, key)
                   IN  [j \in 1..Len(rm) |->
                           JoinRow(l, r, on, key, l.rows[i], rm[j], TRUE, TRUE)]])
    IN  [cols |-> l.cols \o NonKey(r.cols, on),
         idx  |-> RangeIndex(Len(rows)),
         rows |-> rows]

\* pd.merge(l, r, on=on, how='outer'): every key of either side, in sorted
\* key order, under a fresh RangeIndex.
OuterMerge(l, r, on) ==
    LET keys == SortKeys({KeyOf(l.rows[i], on) : i \in 1..NRows(l)}
                         \cup {KeyOf(r.rows[i], on) : i \in 1..NRows(r)})
        rows == Flatten([k \in 1..Len(keys) |-> KeyRows(l, r, on, keys[k])])
    IN  [cols |-> l.cols \o NonKey(r.cols, on),
         idx  |-> RangeIndex(Len(rows)),
         rows |-> rows]

\* pd.merge(l, r, on=on, how='left'): the left rows in their order, each
\* repeated once per matching right row (NaN-padded when there is none).
LeftMerge(l, r, on) ==
    LET rows == Flatten([i \in 1..NRows(l) |->
                   LET key == KeyOf(l.rows[i], on)
                       rm  == Matching(r, on, key)
                   IN  IF rm = <<>>
                       THEN <<JoinRow(l, r, on, key, l.rows[i], l.rows[i], TRUE, FALSE)>>
                       ELSE [j \in 1..Len(rm) |->
                               JoinRow(l, r, on, key, l.rows[i], rm[j], TRUE, TRUE)]])
    IN  [cols |-> l.cols \o NonKey(r.cols, on),
         idx  |-> RangeIndex(Len(rows)),
         rows |-> rows]

(***************************************************************************)
(* The input files.                                                        *)
(***************************************************************************)
\* The YYYYMMDDHH key of the h-th hour after StartDay 00:00.
DateKey(h) == (StartDay + (h \div 24)) * 100 + (h % 24)

WpCells == {NaN} \cup {Num(v) : v \in 0..MaxWp}

Patterns == [1..PatLen -> WpCells]

\* The series used where the forecast files vary: 1 0 .. 0 1, repeated.
JoinPattern == [i \in 1..PatLen |-> Num(IF i \in {1, PatLen} THEN 1 ELSE 0)]

\* train.csv: one row per consecutive hour; wp1 repeats the pattern pat.
TrainCsv(pat, n, hasHors) ==
    [cols |-> IF hasHors THEN <<"date", "hors", "wp1">> ELSE <<"date", "wp1">>,
     idx  |-> RangeIndex(n),
     rows |-> [i \in 1..n |->
                 [c \in (IF hasHors THEN {"date", "hors", "wp1"} ELSE {"date", "wp1"}) |->
                     CASE c = "date" -> Num(DateKey(StartHour + i - 1))
                       [] c = "hors" -> Num(1)
                       [] OTHER      -> pat[((i - 1) % PatLen) + 1]]]]

FarmCols == <<"u", "v", "ws", "wd">>

\* Other headers a forecast file may carry: names that end like a renamed
\* column, or that are names of the primary series and of derived features.
FarmColSets ==
    {FarmCols, <<"ws", "ws_wf1">>, <<"ws_wf2", "ws">>, <<"wp1", "ws", "hour">>}

\* wf/windforecasts_wf<num>.csv: forecasts issued every `step` hours from
\* offset `off` over the hours 0..n of the series (hour n lies after the
\* last row of train.csv), each for the horizons 1..nh.
FarmCsvCols(num, n, step, off, nh, fcols) ==
    LET cnt == IF off > n THEN 0 ELSE ((n - off) \div step) + 1
        cs  == <<"date", "hors">> \o fcols
    IN  [cols |-> cs,
         idx  |-> RangeIndex(cnt * nh),
         rows |-> [r \in 1..(cnt * nh) |->
                     LET h   == off + ((r - 1) \div nh) * step
                         hor == ((r - 1) % nh) + 1
                     IN  [c \in Range(cs) |->
                            CASE c = "date" -> Num(DateKey(StartHour + h))
                              [] c = "hors" -> Num(hor)
                              [] OTHER      ->
                                   Num((h + hor + num
                                        + (CHOOSE p \in 1..Len(fcols) : fcols[p] = c)) % 3)]]]

FarmCsv(num, n, step, off, nh) == FarmCsvCols(num, n, step, off, nh, FarmCols)

\* Date keys that are no ten-digit YYYYMMDDHH value: an hour, or a month
\* and an hour, written without the leading zero; no hour at all; hour 25;
\* the 30th of February.
BadKeys == {200907011, 2009711, 20090701, 2009070125, 2009023001}

\* The table f with the date of its last row replaced by key.
WithLastDate(f, key) ==
    [cols |-> f.cols,
     idx  |-> f.idx,
     rows |-> [i \in 1..NRows(f) |->
                 IF i = NRows(f)
                 THEN [f.rows[i] EXCEPT !["date"] = Num(key)]
                 ELSE f.rows[i]]]

(***************************************************************************)
(* Loading and merging the per-farm forecasts.                             *)
(***************************************************************************)
MergeKeys == <<"date", "hors">>

\* The suffix without the position of the file: f"{col}_wf".
RenamedNoIndex(c, i) == IF c \in Range(MergeKeys) THEN c ELSE c \o "_wf"

\* f"{col}_wf{i}" for every column except the keys.
Renamed(c, i) == IF c \in Range(MergeKeys) THEN c ELSE c \o "_wf" \o ToString(i)

RenameFarm(f, i) ==
    [cols |-> [k \in 1..Len(f.cols) |-> Renamed(f.cols[k], i)],
     idx  |-> f.idx,
     rows |-> [r \in 1..NRows(f) |->
                 [c \in {Renamed(f.cols[k], i) : k \in 1..Len(f.cols)} |->
                     f.rows[r][CHOOSE o \in Range(f.cols) : Renamed(o, i) = c]]]]

\* reduce(lambda left, right: pd.merge(left, right, how='outer'), dfs)
RECURSIVE ReduceOuter(_, _)
ReduceOuter(acc, dfs) ==
    IF dfs = <<>> THEN acc
    ELSE ReduceOuter(OuterMerge(acc, Head(dfs), MergeKeys), Tail(dfs))

\* merge_cols: 'date', and 'hors' when both frames carry it.
MergeCols(l, r) ==
    IF HasCol(l, "hors") /\ HasCol(r, "hors") THEN <<"date", "hors">> ELSE <<"date">>

(***************************************************************************)
(* Lag, rolling and calendar features.                                     *)
(***************************************************************************)
Lags == <<1, 2, 3>>
Windows == <<3, 6, 12>>

\* Shift with the sign of the offset inverted (row i takes row i + k).
ShiftNeg(col, k) ==
    [i \in 1..Len(col) |-> IF (i + k) \in 1..Len(col) THEN col[i + k] ELSE NaN]

\* Shift one row too far (row i takes row i - k - 1).
ShiftOffByOne(col, k) ==
    [i \in 1..Len(col) |->
        IF (i - k - 1) \in 1..Len(col) THEN col[i - k - 1] ELSE NaN]

\* Series.shift(k): row i takes the value of row i - k, NaN outside.
Shift(col, k) ==
    [i \in 1..Len(col) |-> IF (i - k) \in 1..Len(col) THEN col[i - k] ELSE NaN]

RECURSIVE SumNum(_)
SumNum(s) == IF s = <<>> THEN 0 ELSE Head(s)[1] + SumNum(Tail(s))

RECURSIVE SumSq(_)
SumSq(s) == IF s = <<>> THEN 0 ELSE Head(s)[1] * Head(s)[1] + SumSq(Tail(s))

\* The window of w rows ending at row i (rows i-w+1..i).
Window(col, i, w) == SubSeq(col, i - w + 1, i)

\* rolling(w) leaves NaN until w observations are in the window
\* (min_periods = w), and wherever the window holds a NaN.
WindowFull(col, i, w) ==
    /\ i >= w
    /\ \A j \in (i - w + 1)..i : ~IsNaN(col[j])

\* The rolling mean with min_periods = 1 (a mean of the rows there are).
RollingMeanMinOne(col, w) ==
    [i \in 1..Len(col) |->
        LET lo == IF i >= w THEN i - w + 1 ELSE 1 IN
        IF \A j \in lo..i : ~IsNaN(col[j])
        THEN Rat(SumNum(SubSeq(col, lo, i)), i - lo + 1) ELSE NaN]

RollingMean(col, w) ==
    [i \in 1..Len(col) |->
        IF WindowFull(col, i, w) THEN Rat(SumNum(Window(col, i, w)), w) ELSE NaN]

\* The sample variance (ddof = 1) of the window; std is its square root.
RollingStd(col, w) ==
    [i \in 1..Len(col) |->
        IF WindowFull(col, i, w)
        THEN Rat(w * SumSq(Window(col, i, w))
                   - SumNum(Window(col, i, w)) * SumNum(Window(col, i, w)),
                 w * (w - 1))
        ELSE NaN]

\* The lag written back into the series: df['wp1'] = df['wp1'].shift(lag).
LagNameInPlace(k) == "wp1"

LagName(k) == "wp1_lag" \o ToString(k)
RollMeanName(w) == "wp1_rollmean" \o ToString(w)
RollStdName(w) == "wp1_rollstd" \o ToString(w)

RECURSIVE AddLags(_, _)
AddLags(f, ks) ==
    IF ks = <<>> THEN f
    ELSE AddLags(SetColumn(f, LagName(Head(ks)), Shift(Column(f, "wp1"), Head(ks))),
                 Tail(ks))

RECURSIVE AddRolling(_, _)
AddRolling(f, ws) ==
    IF ws = <<>> THEN f
    ELSE AddRolling(
           SetColumn(SetColumn(f, RollMeanName(Head(ws)),
                               RollingMean(Column(f, "wp1"), Head(ws))),
                     RollStdName(Head(ws)), RollingStd(Column(f, "wp1"), Head(ws))),
           Tail(ws))

IsLeap(yr) == (yr % 4 = 0 /\ yr % 100 # 0) \/ yr % 400 = 0

DaysInMonth(yr, m) ==
    IF m = 2 THEN (IF IsLeap(yr) THEN 29 ELSE 28)
    ELSE IF m \in {4, 6, 9, 11} THEN 30 ELSE 31

\* astype(str) of an integer key: its decimal digits.
RECURSIVE DigitsOf(_)
DigitsOf(n) == IF n < 10 THEN <<n>> ELSE Append(DigitsOf(n \div 10), n % 10)

\* The number written by the digits ds[p .. p + len - 1].
RECURSIVE NumAt(_, _, _)
NumAt(ds, p, len) ==
    IF len = 0 THEN 0 ELSE NumAt(ds, p, len - 1) * 10 + ds[p + len - 1]

\* The alternatives of one directive of '%Y%m%d%H' in the order the parser
\* tries them, each <<digits, lowest value, highest value>>:
\*   %m  1[0-2] | 0[1-9] | [1-9]
\*   %d  3[0-1] | [1-2]\d | 0[1-9] | [1-9]
\*   %H  2[0-3] | [0-1]\d | \d
\* (%Y is four digits).  A two-digit field may be written with one digit.
MonthAlts == << <<2, 10, 12>>, <<2, 1, 9>>, <<1, 1, 9>> >>
DayAlts == << <<2, 30, 31>>, <<2, 10, 29>>, <<2, 1, 9>>, <<1, 1, 9>> >>
HourAlts == << <<2, 20, 23>>, <<2, 0, 19>>, <<1, 0, 9>> >>
YearDigits == 4

\* The alternative alt matches the digits at position p.
AltMatches(ds, p, alt) ==
    /\ p + alt[1] - 1 <= Len(ds)
    /\ NumAt(ds, p, alt[1]) \in alt[2]..alt[3]

\* The choices <<a, b, c>> of alternatives for %m, %d, %H under which the
\* digits after the year match field by field.
FieldMatches(ds) ==
    {abc \in (DOMAIN MonthAlts) \X (DOMAIN DayAlts) \X (DOMAIN HourAlts) :
        LET pm == YearDigits + 1
            pd == pm + MonthAlts[abc[1]][1]
            ph == pd + DayAlts[abc[2]][1]
        IN  /\ AltMatches(ds, pm, MonthAlts[abc[1]])
            /\ AltMatches(ds, pd, DayAlts[abc[2]])
            /\ AltMatches(ds, ph, HourAlts[abc[3]])}

\* The match the parser finds: the first in the order of its backtracking
\* (earlier alternatives of earlier fields first).
FirstMatch(S) ==
    CHOOSE m \in S : \A o \in S \ {m} :
        \/ m[1] < o[1]
        \/ (m[1] = o[1] /\ m[2] < o[2])
        \/ (m[1] = o[1] /\ m[2] = o[2] /\ m[3] < o[3])

\* The fields strptime reads from the key k under '%Y%m%d%H'; matched tells
\* whether the pattern matched and consumed every digit.
StrpTime(k) ==
    LET ds == DigitsOf(k)
        S  == IF Len(ds) < YearDigits THEN {} ELSE FieldMatches(ds)
    IN  IF S = {}
        THEN [matched |-> FALSE, year |-> 0, month |-> 0, day |-> 0, hour |-> 0]
        ELSE LET m  == FirstMatch(S)
                 pm == YearDigits + 1
                 pd == pm + MonthAlts[m[1]][1]
                 ph == pd + DayAlts[m[2]][1]
             IN  [matched |-> ph + HourAlts[m[3]][1] - 1 = Len(ds),
                  year    |-> NumAt(ds, 1, YearDigits),
                  month   |-> NumAt(ds, pm, MonthAlts[m[1]][1]),
                  day     |-> NumAt(ds, pd, DayAlts[m[2]][1]),
                  hour    |-> NumAt(ds, ph, HourAlts[m[3]][1])]

YearOf(k) == StrpTime(k).year
MonthOf(k) == StrpTime(k).month
DayOf(k) == StrpTime(k).day
HourOf(k) == StrpTime(k).hour

\* The years a nanosecond timestamp can hold in full.
MinYear == 1678
MaxYear == 2261

\* pd.to_datetime raises on a key that does not match the format, leaves
\* digits unconverted, or names no day of the calendar.
DateOk(c) ==
    /\ ~IsNaN(c)
    /\ c[2] = 1
    /\ c[1] >= 0
    /\ LET t == StrpTime(c[1])
       IN  /\ t.matched
           /\ t.year \in MinYear..MaxYear
           /\ t.day \in 1..DaysInMonth(t.year, t.month)

\* Days since 1970-01-01 of a civil date.
DaysFromCivil(yr, m, d) ==
    LET yy  == IF m <= 2 THEN yr - 1 ELSE yr
        era == yy \div 400
        yoe == yy - era * 400
        mp  == IF m > 2 THEN m - 3 ELSE m + 9
        doy == ((153 * mp + 2) \div 5) + d - 1
        doe == yoe * 365 + (yoe \div 4) - (yoe \div 100) + doy
    IN  era * 146097 + doe - 719468

\* The datetime of a key, in hours since 1970-01-01 00:00.
ToDatetime(c) ==
    LET t == StrpTime(c[1])
    IN  Num(DaysFromCivil(t.year, t.month, t.day) * 24 + t.hour)

DtHour(t) == Num(t[1] % 24)
DtDayOfWeek(t) == Num(((t[1] \div 24) + 3) % 7)
DtMonth(c) == Num(MonthOf(c[1]))

AddTime(f) ==
    LET dt == [i \in 1..NRows(f) |-> ToDatetime(f.rows[i]["date"])]
        f1 == SetColumn(f, "datetime", dt)
        f2 == SetColumn(f1, "hour", [i \in 1..NRows(f) |-> DtHour(dt[i])])
        f3 == SetColumn(f2, "dayofweek", [i \in 1..NRows(f) |-> DtDayOfWeek(dt[i])])
    IN  SetColumn(f3, "month", [i \in 1..NRows(f) |-> DtMonth(f.rows[i]["date"])])

(***************************************************************************)
(* Missing-value filter, alignment and split.                              *)
(***************************************************************************)
NotFeature == {"target_variable", "datetime"}
NotInput == {"wp1", "target_variable", "datetime"}

\* feature_cols = [col for col in df.columns if col not in [...]]
FeatureCols(f) == LET Keep(c) == c \notin NotFeature IN SelectSeq(f.cols, Keep)

InputCols(f) == LET Keep(c) == c \notin NotInput IN SelectSeq(f.cols, Keep)

\* dropna(how='all'): a row is kept when any cell of the subset is present.
RowCompleteAny(row, cs) == \E c \in Range(cs) : ~IsNaN(row[c])

RowComplete(row, cs) == \A c \in Range(cs) : ~IsNaN(row[c])

\* The positions of the rows dropna(subset=cs) keeps.
RECURSIVE KeptPositions(_, _, _)
KeptPositions(f, cs, i) ==
    IF i > NRows(f) THEN <<>>
    ELSE (IF RowComplete(f.rows[i], cs) THEN <<i>> ELSE <<>>)
         \o KeptPositions(f, cs, i + 1)

\* df.dropna(subset=cs): the complete rows, in order, under their labels.
DropNa(f, cs) ==
    LET keep == KeptPositions(f, cs, 1)
    IN  [cols |-> f.cols,
         idx  |-> [k \in 1..Len(keep) |-> f.idx[keep[k]]],
         rows |-> [k \in 1..Len(keep) |-> f.rows[keep[k]]]]

\* df['wp1'].shift(-1).dropna() : the next row's wp1 under this row's label.
Target(f) ==
    DropNa([cols |-> <<"wp1">>,
            idx  |-> f.idx,
            rows |-> [i \in 1..NRows(f) |->
                        [c \in {"wp1"} |-> Shift(Column(f, "wp1"), -1)[i]]]],
           <<"wp1">>)

\* X.iloc[1:, :] (the first row cut instead of the last)
DropFirst(f) == RowSlice(f, 2, NRows(f))

\* X.iloc[:-1, :]
DropLast(f) == RowSlice(f, 1, NRows(f) - 1)

\* test_size = 0.2 = 1 / TestDen
TestDen == 5

\* n_test rounded down instead of up.
NTestFloor(n) == n \div TestDen

\* sklearn: n_test = ceil(test_size * n), n_train = n - n_test.
NTest(n) == (n + TestDen - 1) \div TestDen
NTrain(n) == n - NTest(n)

(***************************************************************************)
(* The recurrent model's data: scaling, windows and the cut.               *)
(***************************************************************************)
\* The array of a frame's values: rows of cells, in column order.
Values(f) == [i \in 1..NRows(f) |-> [j \in 1..Len(f.cols) |-> f.rows[i][f.cols[j]]]]

\* Column j of an array.
ArrayColumn(m, j) == [i \in 1..Len(m) |-> m[i][j]]

\* data_min_ and data_max_ of a fitted MinMaxScaler, for one column.
ColMin(col) == CHOOSE a \in Range(col) : \A b \in Range(col) : ~RatLess(b, a)
ColMax(col) == CHOOSE a \in Range(col) : \A b \in Range(col) : ~RatLess(a, b)

\* transform: (x - min) / (max - min); the scale of a constant column is 1.
ScaleCell(x, mn, mx) ==
    IF mx = mn THEN RatSub(x, mn) ELSE RatDiv(RatSub(x, mn), RatSub(mx, mn))

\* inverse_transform: x * (max - min) + min.
UnscaleCell(x, mn, mx) ==
    IF mx = mn THEN RatAdd(x, mn) ELSE RatAdd(RatMul(x, RatSub(mx, mn)), mn)

\* A scaler fitted on the rows of the training part only.
FitTransformTrainRows(m) ==
    LET w  == IF m = <<>> THEN 0 ELSE Len(m[1])
        tr == SubSeq(m, 1, (4 * Len(m)) \div 5)
        mn == [j \in 1..w |-> ColMin(ArrayColumn(tr, j))]
        mx == [j \in 1..w |-> ColMax(ArrayColumn(tr, j))]
    IN  [i \in 1..Len(m) |-> [j \in 1..w |-> ScaleCell(m[i][j], mn[j], mx[j])]]

\* MinMaxScaler().fit_transform(m): every column scaled by its own minimum
\* and maximum over all the rows of m.
FitTransform(m) ==
    LET w  == IF m = <<>> THEN 0 ELSE Len(m[1])
        mn == [j \in 1..w |-> ColMin(ArrayColumn(m, j))]
        mx == [j \in 1..w |-> ColMax(ArrayColumn(m, j))]
    IN  [i \in 1..Len(m) |-> [j \in 1..w |-> ScaleCell(m[i][j], mn[j], mx[j])]]

\* scaler.inverse_transform(a) for the scaler fitted on m.
InverseTransform(m, a) ==
    LET w  == IF m = <<>> THEN 0 ELSE Len(m[1])
        mn == [j \in 1..w |-> ColMin(ArrayColumn(m, j))]
        mx == [j \in 1..w |-> ColMax(ArrayColumn(m, j))]
    IN  [i \in 1..Len(a) |-> [j \in 1..w |-> UnscaleCell(a[i][j], mn[j], mx[j])]]

\* timesteps = 3
Timesteps == 3

\* The number of passes of `for i in range(t, n)`.
NSamples(n, t) == IF n > t THEN n - t ELSE 0

\* Windows that end at row i itself: X_scaled[i-t+1:i+1].
SlidingWindowsInclusive(xs, t) ==
    [k \in 1..NSamples(Len(xs), t) |-> SubSeq(xs, k + 1, k + t)]

\* X_lstm: for i in range(t, len(xs)): append xs[i-t:i].  Pass number k
\* (from 1) has i = t + k - 1 and takes the rows k .. k + t - 1 (from 1).
SlidingWindows(xs, t) ==
    [k \in 1..NSamples(Len(xs), t) |-> SubSeq(xs, k, k + t - 1)]

\* y_lstm: in the same pass, append ys[i], the row k + t (from 1); n is
\* len(X_scaled).
WindowTargets(ys, n, t) == [k \in 1..NSamples(n, t) |-> ys[k + t]]

\* split_idx = int(0.8 * n)
SplitIdx(n) == (4 * n) \div 5

\* Keras fit(validation_split=0.2) raises ValueError when the first
\* int(0.8 * n) samples, the ones it trains on, are none.
FitRaises(n) == SplitIdx(n) = 0

(***************************************************************************)
(* The manual hyperparameter search.                                       *)
(***************************************************************************)
Units == <<32, 64>>
Dropouts == <<Rat(1, 10), Rat(1, 5)>>
Epochs == <<10, 20>>

\* The configurations in the order the three nested loops visit them.
Grid ==
    Flatten([u \in 1..Len(Units) |->
        Flatten([d \in 1..Len(Dropouts) |->
            [e \in 1..Len(Epochs) |-> <<Units[u], Dropouts[d], Epochs[e]>>]])])

\* The MAE a configuration can come out with: a number, or NaN when the
\* fitted network predicts NaN.
MaeVals == {NaN} \cup {Num(v) : v \in 1..MaxMae}

\* mae <= best_mae
ImprovesOrTies(mae, best) == mae # NaN /\ (best = Inf \/ ~RatLess(best, mae))

\* mae < best_mae (false whenever mae is NaN)
Improves(mae, best) == mae # NaN /\ (best = Inf \/ RatLess(mae, best))

\* The split raising only on arrays of unequal length.
SplitRaisesOnMismatch(nx, ny) == nx # ny

\* train_test_split raises ValueError on arrays of unequal length and when
\* the train part would be empty (n_train = 0, which n = 0 and n = 1 give).
SplitRaises(nx, ny) == nx # ny \/ NTrain(nx) = 0

(***************************************************************************)
(* The notebook cell, statement by statement.                              *)
(***************************************************************************)
\* The state before the first statement: the files tr (train.csv) and
\* files (wf/windforecasts_wf*.csv, in sorted order) are on disk.
Start(tr, files) ==
    /\ train = tr
    /\ wf_files = files
    /\ wf_dfs = <<>>
    /\ wf_merged = EmptyFrame
    /\ df = EmptyFrame
    /\ df_feat = EmptyFrame
    /\ X = EmptyFrame
    /\ y = EmptyFrame
    /\ X_train = EmptyFrame
    /\ X_test = EmptyFrame
    /\ y_train = EmptyFrame
    /\ y_test = EmptyFrame
    /\ stage = "load"
    /\ error = "none"
    /\ X_scaled = <<>>
    /\ y_scaled = <<>>
    /\ X_lstm = <<>>
    /\ y_lstm = <<>>
    /\ X_train_lstm = <<>>
    /\ X_test_lstm = <<>>
    /\ y_train_lstm = <<>>
    /\ y_test_lstm = <<>>
    /\ y_test_lstm_inv = <<>>
    /\ best_mae = Unbound
    /\ best_params = Unbound
    /\ maes = <<>>
    /\ units = Unbound
    /\ dropout = Unbound
    /\ epochs = Unbound

\* One forecast file per farm 1..nF, with the headers cols[i].
Farms(nF, n, step, offs, nh, cols) ==
    [i \in 1..nF |-> [num |-> i, csv |-> FarmCsvCols(i, n, step, offs[i], nh, cols[i])]]

\* One forecast file covering every hour of a series of n rows.
OneFarm(n) == Farms(1, n, 1, <<0>>, 1, <<FarmCols>>)

\* Farm numbers a forecast file may carry in its name: with a gap in the
\* numbering, and with two digits.
FarmNums == {1, 2, 3, 10}

\* The code points of the part of 'wf/windforecasts_wf<num>.csv' in which
\* two matched names differ: the digits of num and the dot that follows.
NameTail(num) ==
    [i \in 1..Len(DigitsOf(num)) |-> 48 + DigitsOf(num)[i]] \o <<46>>

\* String comparison, code point by code point.
RECURSIVE CodesLess(_, _)
CodesLess(a, b) ==
    IF b = <<>> THEN FALSE
    ELSE IF a = <<>> THEN TRUE
    ELSE IF Head(a) # Head(b) THEN Head(a) < Head(b)
    ELSE CodesLess(Tail(a), Tail(b))

\* sorted(glob.glob(...)): the matched files in the order of their names.
RECURSIVE SortedGlob(_)
SortedGlob(nums) ==
    IF nums = {} THEN <<>>
    ELSE LET m == CHOOSE a \in nums :
                    \A b \in nums \ {a} : CodesLess(NameTail(a), NameTail(b))
         IN  <<m>> \o SortedGlob(nums \ {m})

\* The forecast files of the farms nums, each covering every hour of a
\* series of n rows, as the sorted glob lists them.
GlobFarms(nums, n) ==
    [i \in 1..Cardinality(nums) |->
        [num |-> SortedGlob(nums)[i],
         csv |-> FarmCsv(SortedGlob(nums)[i], n, 1, 0, 1)]]

\* The inputs: (1) the join pattern under every layout of the forecast
\* files; (2) every wp1 pattern, (3) longer series, (4) a malformed date
\* key in the last row, each with one forecast file covering every hour;
\* (5) forecast files under every choice of headers; (6) forecast files
\* of every choice of farm numbers.
Init ==
    \/ \E n \in MinRows..MaxRows, hasHors \in BOOLEAN, nF \in 0..MaxFarms,
          step \in 1..MaxStep, nh \in 1..MaxHors :
         \E offs \in [1..nF -> 0..(step - 1)] :
            Start(TrainCsv(JoinPattern, n, hasHors),
                  Farms(nF, n, step, offs, nh, [i \in 1..nF |-> FarmCols]))
    \/ \E pat \in Patterns :
            Start(TrainCsv(pat, MaxRows, FALSE), OneFarm(MaxRows))
    \/ \E n \in (MaxRows + 1)..LongRows :
            Start(TrainCsv(JoinPattern, n, FALSE), OneFarm(n))
    \/ \E key \in BadKeys :
            Start(WithLastDate(TrainCsv(JoinPattern, MinRows, FALSE), key),
                  OneFarm(MinRows))
    \/ \E nF \in 1..MaxFarms : \E cols \in [1..nF -> FarmColSets] :
            Start(TrainCsv(JoinPattern, MinRows, FALSE),
                  Farms(nF, MinRows, 1, [i \in 1..nF |-> 0], 1, cols))
    \/ \E nums \in SUBSET FarmNums :
            /\ Cardinality(nums) \in 1..MaxFarms
            /\ Start(TrainCsv(JoinPattern, MinRows, FALSE),
                     GlobFarms(nums, MinRows))

\* for i, f in enumerate(wf_files, 1): read, rename, append
LoadForecasts ==
    /\ stage = "load"
    /\ wf_dfs' = [i \in 1..Len(wf_files) |-> RenameFarm(wf_files[i].csv, i)]
    /\ stage' = "merge_wf"
    /\ UNCHANGED <<train, wf_files, wf_merged, df, df_feat, X, y,
                   X_train, X_test, y_train, y_test, error, lstmVars>>

\* if wf_dfs: wf_merged = reduce(...) else: wf_merged = pd.DataFrame()
MergeForecasts ==
    /\ stage = "merge_wf"
    /\ wf_merged' = IF wf_dfs # <<>>
                    THEN ReduceOuter(Head(wf_dfs), Tail(wf_dfs))
                    ELSE EmptyFrame
    /\ stage' = "merge_train"
    /\ UNCHANGED <<train, wf_files, wf_dfs, df, df_feat, X, y,
                   X_train, X_test, y_train, y_test, error, lstmVars>>

\* df = pd.merge(train, wf_merged, on=merge_cols, how='left')
MergeTrain ==
    /\ stage = "merge_train"
    /\ IF MergeKeysOk(train, wf_merged, MergeCols(train, wf_merged))
       THEN /\ df' = LeftMerge(train, wf_merged, MergeCols(train, wf_merged))
            /\ stage' = "lag"
            /\ error' = error
       ELSE /\ df' = df
            /\ stage' = "failed"
            /\ error' = "KeyError"
    /\ UNCHANGED <<train, wf_files, wf_dfs, wf_merged, df_feat, X, y,
                   X_train, X_test, y_train, y_test, lstmVars>>

\* for lag in [1, 2, 3]: df[f'wp1_lag{lag}'] = df['wp1'].shift(lag)
LagFeatures ==
    /\ stage = "lag"
    /\ df' = AddLags(df, Lags)
    /\ stage' = "rolling"
    /\ UNCHANGED <<train, wf_files, wf_dfs, wf_merged, df_feat, X, y,
                   X_train, X_test, y_train, y_test, error, lstmVars>>

\* for window in [3, 6, 12]: rolling mean and std of wp1
RollingFeatures ==
    /\ stage = "rolling"
    /\ df' = AddRolling(df, Windows)
    /\ stage' = "time"
    /\ UNCHANGED <<train, wf_files, wf_dfs, wf_merged, df_feat, X, y,
                   X_train, X_test, y_train, y_test, error, lstmVars>>

\* if 'date' in df.columns: datetime, hour, dayofweek, month
TimeFeatures ==
    /\ stage = "time"
    /\ IF ~HasCol(df, "date")
       THEN /\ df' = df
            /\ stage' = "dropna"
            /\ error' = error
       ELSE IF \A i \in 1..NRows(df) : DateOk(df.rows[i]["date"])
       THEN /\ df' = AddTime(df)
            /\ stage' = "dropna"
            /\ error' = error
       ELSE /\ df' = df
            /\ stage' = "failed"
            /\ error' = "ValueError"
    /\ UNCHANGED <<train, wf_files, wf_dfs, wf_merged, df_feat, X, y,
                   X_train, X_test, y_train, y_test, lstmVars>>

\* df = df.dropna(subset=feature_cols); df_feat records the frame filtered.
DropMissing ==
    /\ stage = "dropna"
    /\ df_feat' = df
    /\ df' = DropNa(df, FeatureCols(df))
    /\ stage' = "select"
    /\ UNCHANGED <<train, wf_files, wf_dfs, wf_merged, X, y,
                   X_train, X_test, y_train, y_test, error, lstmVars>>

\* X = df[...]; y = df['wp1'].shift(-1).dropna(); X = X.iloc[:-1, :]
SelectTarget ==
    /\ stage = "select"
    /\ X' = DropLast(Project(df, InputCols(df)))
    /\ y' = Target(df)
    /\ stage' = "split"
    /\ UNCHANGED <<train, wf_files, wf_dfs, wf_merged, df, df_feat,
                   X_train, X_test, y_train, y_test, error, lstmVars>>

\* train_test_split(X, y, test_size=0.2, shuffle=False)
SplitData ==
    /\ stage = "split"
    /\ IF SplitRaises(NRows(X), NRows(y))
       THEN /\ stage' = "failed"
            /\ error' = "ValueError"
            /\ UNCHANGED <<X_train, X_test, y_train, y_test>>
       ELSE /\ X_train' = RowSlice(X, 1, NTrain(NRows(X)))
            /\ X_test' = RowSlice(X, NTrain(NRows(X)) + 1, NRows(X))
            /\ y_train' = RowSlice(y, 1, NTrain(NRows(y)))
            /\ y_test' = RowSlice(y, NTrain(NRows(y)) + 1, NRows(y))
            /\ stage' = "done"
            /\ error' = error
    /\ UNCHANGED <<train, wf_files, wf_dfs, wf_merged, df, df_feat, X, y, lstmVars>>

featureVars == <<train, wf_files, wf_dfs, wf_merged, df, df_feat, X, y,
                 X_train, X_test, y_train, y_test>>

(***************************************************************************)
(* The final cell.  The tree models fitted first leave X, y and the split *)
(* as they are, and their metrics are computed against y_test.            *)
(***************************************************************************)
\* The final cell can be run once the feature cell has finished, whether or
\* not the tuning cell was run in between; a TypeError is raised by the
\* recurrent-model cells only, and leaves every name bound as it was.
CellFinished ==
    \/ stage \in {"done", "tuned"}
    \/ stage = "failed" /\ error = "TypeError"

\* X_scaled = scaler_X.fit_transform(X); y_scaled = scaler_y.fit_transform(y)
\* (fit_transform raises ValueError on an array of no rows)
ScaleLstm ==
    /\ CellFinished
    /\ IF NRows(X) = 0
       THEN /\ stage' = "failed"
            /\ error' = "ValueError"
            /\ UNCHANGED <<X_scaled, y_scaled>>
       ELSE /\ X_scaled' = FitTransform(Values(X))
            /\ y_scaled' = FitTransform(Values(y))
            /\ stage' = "window"
            /\ error' = "none"
    /\ UNCHANGED <<featureVars, X_lstm, y_lstm, X_train_lstm, X_test_lstm,
                   y_train_lstm, y_test_lstm, y_test_lstm_inv,
                   best_mae, best_params, maes, units, dropout, epochs>>

\* for i in range(timesteps, len(X_scaled)): X_lstm.append(...); y_lstm.append(...)
WindowLstm ==
    /\ stage = "window"
    /\ X_lstm' = SlidingWindows(X_scaled, Timesteps)
    /\ y_lstm' = WindowTargets(y_scaled, Len(X_scaled), Timesteps)
    /\ stage' = "split_lstm"
    /\ UNCHANGED <<featureVars, error, X_scaled, y_scaled, X_train_lstm, X_test_lstm,
                   y_train_lstm, y_test_lstm, y_test_lstm_inv,
                   best_mae, best_params, maes, units, dropout, epochs>>

\* split_idx = int(0.8 * len(X_lstm)); the slices [:split_idx], [split_idx:]
SplitLstm ==
    /\ stage = "split_lstm"
    /\ X_train_lstm' = SubSeq(X_lstm, 1, SplitIdx(Len(X_lstm)))
    /\ X_test_lstm' = SubSeq(X_lstm, SplitIdx(Len(X_lstm)) + 1, Len(X_lstm))
    /\ y_train_lstm' = SubSeq(y_lstm, 1, SplitIdx(Len(X_lstm)))
    /\ y_test_lstm' = SubSeq(y_lstm, SplitIdx(Len(X_lstm)) + 1, Len(y_lstm))
    /\ stage' = "build"
    /\ UNCHANGED <<featureVars, error, X_scaled, y_scaled, X_lstm, y_lstm,
                   y_test_lstm_inv, best_mae, best_params, maes,
                   units, dropout, epochs>>

\* except NameError: units, dropout, epochs = 64, 0.2, 20
DefaultParams == <<64, Rat(1, 5), 20>>

\* The model is built and fitted.  units, dropout, epochs = best_params
\* raises NameError when the name is not bound, which the except clause
\* answers with the defaults, and TypeError when it is bound to None, which
\* nothing catches.  Then X_train_lstm.shape[1] raises IndexError when
\* there is no sample (np.array([]) has one dimension), and fit raises
\* ValueError when it is left nothing to train on.
BuildLstm ==
    /\ stage = "build"
    /\ IF best_params = None
       THEN /\ stage' = "failed" /\ error' = "TypeError"
            /\ UNCHANGED <<units, dropout, epochs>>
       ELSE LET params == IF best_params = Unbound THEN DefaultParams
                          ELSE best_params
            IN  /\ units' = params[1]
                /\ dropout' = params[2]
                /\ epochs' = params[3]
                /\ IF X_lstm = <<>>
                   THEN stage' = "failed" /\ error' = "IndexError"
                   ELSE IF FitRaises(Len(X_train_lstm))
                   THEN stage' = "failed" /\ error' = "ValueError"
                   ELSE stage' = "evaluate" /\ error' = error
    /\ UNCHANGED <<featureVars, X_scaled, y_scaled, X_lstm, y_lstm,
                   X_train_lstm, X_test_lstm, y_train_lstm, y_test_lstm,
                   y_test_lstm_inv, best_mae, best_params, maes>>

\* y_test_lstm_inv = scaler_y.inverse_transform(y_test_lstm): the targets
\* mae_lstm and rmse_lstm are computed against.
EvaluateLstm ==
    /\ stage = "evaluate"
    /\ y_test_lstm_inv' = InverseTransform(Values(y), y_test_lstm)
    /\ stage' = "evaluated"
    /\ UNCHANGED <<featureVars, error, X_scaled, y_scaled, X_lstm, y_lstm,
                   X_train_lstm, X_test_lstm, y_train_lstm, y_test_lstm,
                   best_mae, best_params, maes, units, dropout, epochs>>

Next ==
    \/ LoadForecasts
    \/ MergeForecasts
    \/ MergeTrain
    \/ LagFeatures
    \/ RollingFeatures
    \/ TimeFeatures
    \/ DropMissing
    \/ SelectTarget
    \/ SplitData
    \/ ScaleLstm
    \/ WindowLstm
    \/ SplitLstm
    \/ BuildLstm
    \/ EvaluateLstm

Spec == Init /\ [][Next]_vars

(***************************************************************************)
(* The tuning cell, run after the feature cell.                            *)
(***************************************************************************)
\* Scaling, windows and cut as in the final cell; best_mae = float('inf');
\* best_params = None.
TunePrepare ==
    /\ stage = "done"
    /\ IF NRows(X) = 0
       THEN /\ stage' = "failed"
            /\ error' = "ValueError"
            /\ UNCHANGED <<X_scaled, y_scaled, X_lstm, y_lstm, X_train_lstm,
                           X_test_lstm, y_train_lstm, y_test_lstm,
                           best_mae, best_params>>
       ELSE LET xs == FitTransform(Values(X))
                ys == FitTransform(Values(y))
                xl == SlidingWindows(xs, Timesteps)
                yl == WindowTargets(ys, Len(xs), Timesteps)
            IN  /\ X_scaled' = xs
                /\ y_scaled' = ys
                /\ X_lstm' = xl
                /\ y_lstm' = yl
                /\ X_train_lstm' = SubSeq(xl, 1, SplitIdx(Len(xl)))
                /\ X_test_lstm' = SubSeq(xl, SplitIdx(Len(xl)) + 1, Len(xl))
                /\ y_train_lstm' = SubSeq(yl, 1, SplitIdx(Len(xl)))
                /\ y_test_lstm' = SubSeq(yl, SplitIdx(Len(xl)) + 1, Len(yl))
                /\ best_mae' = Inf
                /\ best_params' = None
                /\ stage' = "search"
                /\ error' = error
    /\ UNCHANGED <<featureVars, y_test_lstm_inv, maes, units, dropout, epochs>>

\* One pass of the three nested loops (which bind units, dropout and
\* epochs): a network is built and fitted for the next configuration, its
\* held-out MAE comes out as mae, and `if mae < best_mae` keeps it.
TuneStep ==
    /\ stage = "search"
    /\ Len(maes) < Len(Grid)
    /\ units' = Grid[Len(maes) + 1][1]
    /\ dropout' = Grid[Len(maes) + 1][2]
    /\ epochs' = Grid[Len(maes) + 1][3]
    /\ IF X_lstm = <<>>
       THEN /\ stage' = "failed" /\ error' = "IndexError"
            /\ UNCHANGED <<best_mae, best_params, maes>>
       ELSE IF FitRaises(Len(X_train_lstm))
       THEN /\ stage' = "failed" /\ error' = "ValueError"
            /\ UNCHANGED <<best_mae, best_params, maes>>
       ELSE \E mae \in MaeVals :
            /\ maes' = Append(maes, mae)
            /\ IF Improves(mae, best_mae)
               THEN /\ best_mae' = mae
                    /\ best_params' = Grid[Len(maes) + 1]
               ELSE UNCHANGED <<best_mae, best_params>>
            /\ UNCHANGED <<stage, error>>
    /\ UNCHANGED <<featureVars, X_scaled, y_scaled, X_lstm, y_lstm,
                   X_train_lstm, X_test_lstm, y_train_lstm, y_test_lstm,
                   y_test_lstm_inv>>

\* After the loops: print(f"Best LSTM params: units={best_params[0]}, ...")
\* raises TypeError when best_params is still None.
TuneFinish ==
    /\ stage = "search"
    /\ Len(maes) = Len(Grid)
    /\ IF best_params = None
       THEN stage' = "failed" /\ error' = "TypeError"
       ELSE stage' = "tuned" /\ error' = error
    /\ UNCHANGED <<featureVars, lstmVars>>

\* The search is followed on one series of LongRows rows.
SearchInit == Start(TrainCsv(JoinPattern, LongRows, FALSE), OneFarm(LongRows))

SearchNext ==
    \/ LoadForecasts
    \/ MergeForecasts
    \/ MergeTrain
    \/ LagFeatures
    \/ RollingFeatures
    \/ TimeFeatures
    \/ DropMissing
    \/ SelectTarget
    \/ SplitData
    \/ TunePrepare
    \/ TuneStep
    \/ TuneFinish

SearchSpec == SearchInit /\ [][SearchNext]_vars

(***************************************************************************)
(* The cells in the orders they can be run in: the feature cell, then the  *)
(* final cell, with or without the tuning cell in between.                 *)
(***************************************************************************)
CellsNext ==
    \/ LoadForecasts
    \/ MergeForecasts
    \/ MergeTrain
    \/ LagFeatures
    \/ RollingFeatures
    \/ TimeFeatures
    \/ DropMissing
    \/ SelectTarget
    \/ SplitData
    \/ TunePrepare
    \/ TuneStep
    \/ TuneFinish
    \/ ScaleLstm
    \/ WindowLstm
    \/ SplitLstm
    \/ BuildLstm
    \/ EvaluateLstm

CellsSpec == SearchInit /\ [][CellsNext]_vars

(***************************************************************************)
(* Properties.                                                             *)
(***************************************************************************)
Wp1(f) == Column(f, "wp1")

DateSet(f) == {f.rows[i]["date"] : i \in 1..NRows(f)}

\* The series that agree with col on rows 1..t: col cut after row t, and
\* col with every later row overwritten by one cell.
Variants(col, t) ==
    {SubSeq(col, 1, t)}
    \cup {[i \in 1..Len(col) |-> IF i <= t THEN col[i] ELSE c] : c \in WpCells}

\* C1: no look-ahead.  Once the lag and rolling columns are in the merged
\* frame, each of them at row t is what the same computation gives at row t
\* on any series that agrees with wp1 on the rows up to t, whatever that
\* series holds (or lacks) after row t.
C1_NoLookAhead ==
    stage \in {"time", "dropna"} =>
        \A t \in 1..NRows(df) : \A v \in Variants(Wp1(df), t) :
            /\ \A k \in Range(Lags) :
                   df.rows[t][LagName(k)] = Shift(v, k)[t]
            /\ \A w \in Range(Windows) :
                   /\ df.rows[t][RollMeanName(w)] = RollingMean(v, w)[t]
                   /\ df.rows[t][RollStdName(w)] = RollingStd(v, w)[t]

C1_Witness ==
    /\ stage = "time"
    /\ \E t \in 1..(NRows(df) - 1) :
          /\ ~IsNaN(df.rows[t][RollStdName(12)])
          /\ ~IsNaN(df.rows[t][LagName(3)])
          /\ df.rows[t + 1]["wp1"] # df.rows[t]["wp1"]

\* C8: for every lag k and every row of the merged frame, wp1_lag{k} is the
\* raw wp1 k rows earlier, and is missing on the first k rows.
C8_LagIsEarlierRow ==
    stage \in {"rolling", "time", "dropna"} =>
        \A k \in Range(Lags) : \A i \in 1..NRows(df) :
            df.rows[i][LagName(k)] =
                (IF i > k THEN df.rows[i - k]["wp1"] ELSE NaN)

C8_Witness ==
    /\ stage = "rolling"
    /\ \E i \in 1..NRows(df) :
          /\ ~IsNaN(df.rows[i][LagName(3)])
          /\ ~IsNaN(df.rows[i][LagName(1)])
          /\ df.rows[i][LagName(3)] # df.rows[i][LagName(1)]
          /\ df.rows[i][LagName(1)] # df.rows[i]["wp1"]

\* C9: for every window w and every row of the merged frame, wp1_rollmean{w}
\* is missing on the first w-1 rows, and where the w rows ending at the row
\* all hold a value it is their sum divided by w.
C9_RollMeanIsWindowMean ==
    stage \in {"time", "dropna"} =>
        \A w \in Range(Windows) : \A i \in 1..NRows(df) :
            LET c == df.rows[i][RollMeanName(w)] IN
            /\ i < w => IsNaN(c)
            /\ (i >= w /\ \A j \in (i - w + 1)..i : ~IsNaN(df.rows[j]["wp1"])) =>
                  /\ c[2] > 0
                  /\ c[1] * w = c[2] * SumNum([j \in 1..w |-> df.rows[i - w + j]["wp1"]])

C9_Witness ==
    /\ stage = "time"
    /\ \E i \in 1..NRows(df) :
          /\ df.rows[i][RollMeanName(12)][2] > 1
          /\ df.rows[i][RollMeanName(6)][2] > 1
          /\ df.rows[i][RollMeanName(3)] # df.rows[i - 1][RollMeanName(3)]
          /\ ~IsNaN(df.rows[i - 1][RollMeanName(3)])

\* The wp1 that train.csv holds at the hour after the date of a row.
NextHourRows(row) ==
    {i \in 1..NRows(train) :
        ToDatetime(train.rows[i]["date"])[1] = ToDatetime(row["date"])[1] + 1}

\* C2: every row of the aligned X is paired with the wp1 that train.csv
\* holds for the timestamp one hour after the row's date.
C2_TargetIsNextHour ==
    stage \in {"split", "done"} =>
        \A t \in 1..NRows(X) :
            /\ t <= NRows(y)
            /\ NextHourRows(X.rows[t]) # {}
            /\ \A i \in NextHourRows(X.rows[t]) :
                   y.rows[t]["wp1"] = train.rows[i]["wp1"]

\* C3: after alignment X and y have the same length and the same row labels
\* in the same order; y at position t is the wp1 of the filtered frame at
\* position t + 1, X at position t is the filtered frame's row t, and the
\* label of the last filtered row is not in X.
C3_Aligned ==
    stage \in {"split", "done"} =>
        /\ NRows(X) = NRows(y)
        /\ X.idx = y.idx
        /\ Len(X.idx) = NRows(X)
        /\ \A t \in 1..NRows(y) :
              /\ y.rows[t]["wp1"] = df.rows[t + 1]["wp1"]
              /\ X.idx[t] = df.idx[t]
              /\ \A c \in Range(X.cols) : X.rows[t][c] = df.rows[t][c]
        /\ NRows(df) > 0 =>
              /\ NRows(X) = NRows(df) - 1
              /\ df.idx[NRows(df)] \notin Range(X.idx)

C3_Witness ==
    /\ stage = "split"
    /\ NRows(X) >= 3
    /\ \E t \in 1..NRows(y) : y.rows[t]["wp1"] # df.rows[t]["wp1"]
    /\ \E t \in 1..(NRows(X) - 1) : X.idx[t + 1] > X.idx[t] + 1

\* C4: every date of X_test is later than every date of X_train.
C4_SplitStrictlyLater ==
    stage = "done" =>
        \A a \in 1..NRows(X_train) : \A b \in 1..NRows(X_test) :
            X_train.rows[a]["date"][1] < X_test.rows[b]["date"][1]

\* C5: the split is one cut at floor(0.8 * N): the train parts are the
\* first floor(0.8 * N) aligned rows, the test parts the rest, and train
\* followed by test is the aligned X and y, labels included.
C5_SplitIsOneCut ==
    stage = "done" =>
        LET n == NRows(X)
            k == (4 * n) \div 5
        IN  /\ NRows(X_train) = k
            /\ NRows(y_train) = k
            /\ X_train.rows = SubSeq(X.rows, 1, k)
            /\ y_train.rows = SubSeq(y.rows, 1, k)
            /\ X_train.rows \o X_test.rows = X.rows
            /\ y_train.rows \o y_test.rows = y.rows
            /\ X_train.idx \o X_test.idx = X.idx
            /\ y_train.idx \o y_test.idx = y.idx
            /\ X_train.cols = X.cols /\ X_test.cols = X.cols

C5_Witness ==
    /\ stage = "done"
    /\ NRows(X) % 5 \notin {0, 4}
    /\ NRows(X_train) >= 2
    /\ NRows(X_test) >= 2
    /\ X_train.rows[1] # X_test.rows[1]

HasMissing(row, cs) == \E c \in Range(cs) : IsNaN(row[c])

\* C6: the filter removes exactly the rows with a missing value in a
\* feature column: a row of the feature frame is kept if and only if it
\* has none, and no row of X, X_train or X_test holds a missing value.
C6_MissingRowsDropped ==
    stage \in {"select", "split", "done"} =>
        /\ \A i \in 1..NRows(df_feat) :
              (df_feat.idx[i] \in Range(df.idx))
                  <=> ~HasMissing(df_feat.rows[i], FeatureCols(df_feat))
        /\ \A i \in 1..NRows(df) :
              \E j \in 1..NRows(df_feat) :
                  df_feat.idx[j] = df.idx[i] /\ df_feat.rows[j] = df.rows[i]
        /\ \A f \in {X, X_train, X_test} : \A i \in 1..NRows(f) :
              ~HasMissing(f.rows[i], f.cols)

C6_Witness ==
    /\ stage = "done"
    /\ NRows(X_test) >= 1
    /\ \E i \in 1..NRows(df_feat) :
          /\ ~IsNaN(df_feat.rows[i][RollMeanName(12)])
          /\ IsNaN(df_feat.rows[i]["ws_wf1"])
    /\ \E i \in 1..NRows(df_feat) :
          /\ IsNaN(df_feat.rows[i][RollMeanName(12)])
          /\ ~IsNaN(df_feat.rows[i]["ws_wf1"])

\* C7: with no forecast file the merge step passes train through: the
\* pipeline goes on to feature construction and the merged frame is
\* train.csv row for row, with no column added.
C7_EmptyForecastsPassThrough ==
    (wf_files = <<>> /\ stage \notin {"load", "merge_wf", "merge_train"}) =>
        /\ stage # "failed"
        /\ stage = "lag" => df = train

\* C10: the left join keeps exactly the dates of train: every date of
\* train is in the merged frame, no other date is, and a row whose key has
\* no forecast holds NaN in every forecast column.
C10_LeftJoinKeepsTrainDates ==
    stage = "lag" =>
        /\ DateSet(df) = DateSet(train)
        /\ \A i \in 1..NRows(df) :
              LET on == MergeCols(train, wf_merged) IN
              (Matching(wf_merged, on, KeyOf(df.rows[i], on)) = <<>>) =>
                  \A c \in Range(wf_merged.cols) \ Range(on) : IsNaN(df.rows[i][c])

C10_Witness ==
    /\ stage = "lag"
    /\ \E i \in 1..NRows(df) : IsNaN(df.rows[i]["ws_wf1"])
    /\ \E i \in 1..NRows(df) : ~IsNaN(df.rows[i]["ws_wf1"])
    /\ DateSet(wf_merged) \ DateSet(train) # {}

\* The <<position of the file, header in the file>> pairs that the renaming
\* turns into the column name c.
SourcesOf(c) ==
    {p \in UNION {{<<i, q>> : q \in Range(NonKey(wf_files[i].csv.cols, MergeKeys))} :
                    i \in 1..Len(wf_files)} :
        Renamed(p[2], p[1]) = c}

\* C11: after the renaming and the merge across farms no two columns share
\* a name, every column that is not a key comes from exactly one forecast
\* file and one header of it (and every header of every file is there),
\* each of its cells is missing or is that header's value in that file for
\* the row's key, and the left merge onto train keeps these names.
C11_FarmColumnsTraceable ==
    (stage \in {"merge_train", "lag"} /\ wf_dfs # <<>>) =>
        /\ Len(wf_merged.cols) = Cardinality(Range(wf_merged.cols))
        /\ \A i \in 1..Len(wf_files) :
              \A q \in Range(NonKey(wf_files[i].csv.cols, MergeKeys)) :
                  HasCol(wf_merged, Renamed(q, i))
        /\ \A c \in Range(NonKey(wf_merged.cols, MergeKeys)) :
              /\ Cardinality(SourcesOf(c)) = 1
              /\ LET src == CHOOSE p \in SourcesOf(c) : TRUE
                 IN  \A r \in 1..NRows(wf_merged) :
                        \/ IsNaN(wf_merged.rows[r][c])
                        \/ \E o \in 1..NRows(wf_files[src[1]].csv) :
                              /\ KeyOf(wf_files[src[1]].csv.rows[o], MergeKeys)
                                    = KeyOf(wf_merged.rows[r], MergeKeys)
                              /\ wf_files[src[1]].csv.rows[o][src[2]]
                                    = wf_merged.rows[r][c]
              /\ stage = "lag" => HasCol(df, c)
        /\ stage = "lag" => Len(df.cols) = Cardinality(Range(df.cols))

C11_Witness ==
    /\ stage = "lag"
    /\ Len(wf_files) = MaxFarms
    /\ HasCol(wf_files[1].csv, "ws_wf2")
    /\ HasCol(wf_files[2].csv, "ws")
    /\ HasCol(df, "ws_wf2_wf1")
    /\ HasCol(df, "ws_wf2")
    /\ \E r \in 1..NRows(df) : df.rows[r]["ws_wf2_wf1"] # df.rows[r]["ws_wf2"]

KeySet(f, on) == {KeyOf(f.rows[i], on) : i \in 1..NRows(f)}

\* C12: the merge across the per-farm tables is an outer join on
\* (date, hors): the keys of wf_merged are exactly the keys of the per-farm
\* tables, every row of every per-farm table is in wf_merged under its key
\* with its values, and a row of wf_merged whose key a farm's table lacks
\* holds NaN in every column of that farm.
C12_OuterJoinKeepsEveryKey ==
    (stage = "merge_train" /\ wf_dfs # <<>>) =>
        /\ KeySet(wf_merged, MergeKeys)
              = UNION {KeySet(wf_dfs[i], MergeKeys) : i \in 1..Len(wf_dfs)}
        /\ \A i \in 1..Len(wf_dfs) :
              /\ \A r \in 1..NRows(wf_dfs[i]) :
                    \E m \in 1..NRows(wf_merged) :
                        \A c \in Range(wf_dfs[i].cols) :
                            wf_merged.rows[m][c] = wf_dfs[i].rows[r][c]
              /\ \A m \in 1..NRows(wf_merged) :
                    KeyOf(wf_merged.rows[m], MergeKeys) \notin KeySet(wf_dfs[i], MergeKeys)
                        => \A c \in Range(NonKey(wf_dfs[i].cols, MergeKeys)) :
                               IsNaN(wf_merged.rows[m][c])

C12_Witness ==
    /\ stage = "merge_train"
    /\ Len(wf_dfs) = MaxFarms
    /\ KeySet(wf_dfs[1], MergeKeys) \ KeySet(wf_dfs[2], MergeKeys) # {}
    /\ KeySet(wf_dfs[2], MergeKeys) \ KeySet(wf_dfs[1], MergeKeys) # {}
    /\ \E m \in 1..NRows(wf_merged) :
          IsNaN(wf_merged.rows[m]["ws_wf1"]) /\ ~IsNaN(wf_merged.rows[m]["ws_wf2"])
    /\ \E m \in 1..NRows(wf_merged) :
          ~IsNaN(wf_merged.rows[m]["ws_wf1"]) /\ IsNaN(wf_merged.rows[m]["ws_wf2"])

\* The frame g is the frame f with columns appended on the right: the
\* same rows under the same labels in the same order, the columns of f
\* first, and every cell of a column of f unchanged.
OnlyAppends(f, g) ==
    /\ NRows(g) = NRows(f)
    /\ g.idx = f.idx
    /\ Len(g.cols) >= Len(f.cols)
    /\ SubSeq(g.cols, 1, Len(f.cols)) = f.cols
    /\ \A i \in 1..NRows(f) : \A c \in Range(f.cols) : g.rows[i][c] = f.rows[i][c]

\* C13: each feature step that returns (the lags, the rolling statistics,
\* the calendar columns) leaves the merged frame's row count, row order,
\* row labels and the cells of every column it already had as they were,
\* and only appends columns.
C13_FeaturesOnlyAppend ==
    [][(stage \in {"lag", "rolling", "time"} /\ stage' # "failed")
          => OnlyAppends(df, df')]_vars

C13_Witness ==
    /\ stage = "dropna"
    /\ NRows(df) > NRows(train)
    /\ Len(df.cols) > Len(train.cols) + Len(wf_merged.cols)
    /\ HasCol(df, LagName(3))
    /\ HasCol(df, RollStdName(12))
    /\ HasCol(df, "month")
    /\ \E i \in 1..NRows(df) : df.rows[i][LagName(1)] # df.rows[i]["wp1"]

\* The key is a ten-digit YYYYMMDDHH value: each field read at its fixed
\* place names a year, a month, a day of that month and an hour.
IsFixedWidthKey(c) ==
    /\ ~IsNaN(c)
    /\ c[2] = 1
    /\ Len(DigitsOf(c[1])) = 10
    /\ ((c[1] \div 10000) % 100) \in 1..12
    /\ ((c[1] \div 100) % 100)
          \in 1..DaysInMonth(c[1] \div 1000000, (c[1] \div 10000) % 100)
    /\ (c[1] % 100) \in 0..23

\* C14: the calendar columns exist only when every date key of the merged
\* frame is a ten-digit valid YYYYMMDDHH value: a key that is not makes the
\* calendar step raise, so that no hour, dayofweek or month is derived.
C14_MalformedKeyRaises ==
    HasCol(df_feat, "hour") =>
        \A i \in 1..NRows(df_feat) : IsFixedWidthKey(df_feat.rows[i]["date"])

\* The stages at which the windows of the recurrent model are built.
Windowed ==
    \/ stage \in {"split_lstm", "build", "evaluate", "evaluated", "search", "tuned"}
    \/ (stage = "failed" /\ error \in {"IndexError", "TypeError"})

\* C15: a scaled matrix of L rows gives exactly L - 3 samples (none when
\* L <= 3); sample k (k = 0 .. L-4) is the rows k, k+1, k+2 of the matrix
\* in order, and it is paired with the scaled target of row k+3.
C15_SlidingWindows ==
    Windowed =>
        LET L == Len(X_scaled) IN
        /\ Len(X_lstm) = (IF L <= 3 THEN 0 ELSE L - 3)
        /\ Len(y_lstm) = Len(X_lstm)
        /\ \A k \in 0..(L - 4) :
              /\ X_lstm[k + 1] = <<X_scaled[k + 1], X_scaled[k + 2], X_scaled[k + 3]>>
              /\ y_lstm[k + 1] = y_scaled[k + 4]

C15_Witness ==
    /\ stage = "build"
    /\ Len(X_scaled) >= 6
    /\ Len(X_lstm) = Len(X_scaled) - 3
    /\ X_lstm[1] # X_lstm[2]
    /\ X_lstm[1][3] # X_lstm[2][3]
    /\ y_lstm[1] # y_lstm[2]

\* C16: the metrics of the three models are computed over the same target
\* rows: the targets the recurrent model is scored against (y_test_lstm_inv)
\* are the targets of the chronological 80/20 split (y_test, which the
\* Random Forest and Gradient Boosting metrics use), row for row.
C16_SameTestRows ==
    stage = "evaluated" =>
        /\ Len(y_test_lstm_inv) = NRows(y_test)
        /\ \A k \in 1..NRows(y_test) :
              y_test_lstm_inv[k] = <<y_test.rows[k]["wp1"]>>

\* The passes of the search that came out with a number.
Scored == {i \in 1..Len(maes) : maes[i] # NaN}

\* The pass i holds the lowest MAE of the passes in S, and is the earliest
\* of those that hold it.
LowestIn(i, S) ==
    /\ i \in S
    /\ \A j \in S : ~RatLess(maes[j], maes[i])
    /\ \A j \in S : maes[j] = maes[i] => i <= j

\* The search is in its loops, or past them.
Searching ==
    \/ stage \in {"search", "tuned"}
    \/ (stage = "failed" /\ error = "TypeError")

\* The configurations visited are every combination of units in {32, 64},
\* dropout in {0.1, 0.2} and epochs in {10, 20}, each once.
GridIsProduct ==
    /\ Len(Grid) = 8
    /\ Range(Grid) = {<<u, d, e>> : u \in {32, 64}, d \in {Rat(1, 10), Rat(1, 5)},
                                     e \in {10, 20}}

\* C17 (as stated): after any number of passes at least one, best_params is
\* the configuration with the lowest MAE of the passes made (the earliest
\* on a tie) and best_mae is that MAE; the loops make 8 passes, one per
\* combination.
C17_BestIsLowestOfAll ==
    Searching =>
        /\ GridIsProduct
        /\ Len(maes) <= Len(Grid)
        /\ stage # "search" => Len(maes) = Len(Grid)
        /\ Len(maes) >= 1 =>
              \E i \in 1..Len(maes) :
                  /\ LowestIn(i, 1..Len(maes))
                  /\ best_mae = maes[i]
                  /\ best_params = Grid[i]

\* C17 (amended): the same over the passes whose MAE is a number: a NaN is
\* never kept, and while no pass has come out with a number best_mae is
\* still infinity and best_params still None (the closing print then
\* raises TypeError).
C17_BestIsLowestScored ==
    Searching =>
        /\ GridIsProduct
        /\ Len(maes) <= Len(Grid)
        /\ stage # "search" => Len(maes) = Len(Grid)
        /\ Scored = {} => (best_mae = Inf /\ best_params = None /\ stage # "tuned")
        /\ Scored # {} =>
              /\ stage # "failed"
              /\ \E i \in Scored :
                    /\ LowestIn(i, Scored)
                    /\ best_mae = maes[i]
                    /\ best_params = Grid[i]

C17_Witness ==
    /\ stage = "tuned"
    /\ maes[1] = NaN
    /\ \E i \in Scored : RatLess(best_mae, maes[i])
    /\ \E i, j \in Scored :
          /\ i < j
          /\ maes[i] = best_mae
          /\ maes[j] = best_mae
          /\ best_params = Grid[i]
          /\ i > 2

\* The missing-value filter has run and has kept no row.
FilterLeftNothing ==
    /\ stage \notin {"load", "merge_wf", "merge_train", "lag", "rolling", "time", "dropna"}
    /\ NRows(df_feat) > 0
    /\ NRows(df) = 0

\* C18: when the filter drops every row the run aborts: X and y are empty,
\* the split raises ValueError, and no train/test partition, no scaled or
\* windowed data, no evaluation targets and no search result exist.
C18_EmptyFilterIsFatal ==
    (FilterLeftNothing /\ stage \notin {"select", "split"}) =>
        /\ stage = "failed"
        /\ error = "ValueError"
        /\ NRows(X) = 0 /\ NRows(y) = 0
        /\ X_train = EmptyFrame /\ X_test = EmptyFrame
        /\ y_train = EmptyFrame /\ y_test = EmptyFrame
        /\ X_scaled = <<>> /\ X_lstm = <<>> /\ X_train_lstm = <<>>
        /\ y_test_lstm_inv = <<>>
        /\ best_params = Unbound /\ maes = <<>>

C18_Witness ==
    /\ FilterLeftNothing
    /\ stage = "failed"
    /\ NRows(train) < 12
    /\ HasCol(df_feat, "ws_wf1")
    /\ \E i \in 1..NRows(df_feat) : ~IsNaN(df_feat.rows[i]["ws_wf1"])
    /\ \A i \in 1..NRows(df_feat) : IsNaN(df_feat.rows[i][RollMeanName(12)])

\* The wp1 behind a scaled target.
UnscaledTarget(t) == InverseTransform(Values(y), <<t>>)[1][1]

\* C19: every sample of the recurrent model is paired with the wp1 one row
\* after the last row of its window, as the tree models' rows are: sample
\* k (from 1) holds the rows k, k+1, k+2 of X, the filtered frame's rows of
\* the same positions, and its target is the wp1 of the filtered frame's
\* row k+3, which is the target the alignment pairs with row k+2 of X.
C19_TargetFollowsWindow ==
    Windowed =>
        \A k \in 1..Len(X_lstm) :
            /\ X_lstm[k][3] = X_scaled[k + 2]
            /\ y_lstm[k] = y_scaled[k + 2]
            /\ UnscaledTarget(y_lstm[k]) = df.rows[k + 3]["wp1"]

\* The training samples and targets the recurrent model gets from the
\* arrays xm and ym.
LstmTrainX(xm) ==
    LET xl == SlidingWindows(FitTransform(xm), Timesteps)
    IN  SubSeq(xl, 1, SplitIdx(Len(xl)))

LstmTrainY(xm, ym) ==
    LET yl == WindowTargets(FitTransform(ym), Len(xm), Timesteps)
    IN  SubSeq(yl, 1, SplitIdx(Len(yl)))

\* The array m with every cell of the rows after row t overwritten by c.
Overwritten(m, t, c) ==
    [i \in 1..Len(m) |-> IF i <= t THEN m[i] ELSE [j \in 1..Len(m[i]) |-> c]]

\* The last row of X that a training sample holds, and the last row of y
\* that is the target of a training sample.
LastTrainRowX == SplitIdx(NSamples(NRows(X), Timesteps)) + Timesteps - 1
LastTrainRowY == SplitIdx(NSamples(NRows(X), Timesteps)) + Timesteps

\* C20: the scaled training inputs and targets of the recurrent model are
\* those of any dataset that agrees with X and y on every row feeding a
\* training sample, whatever its rows used only by test samples hold.
C20_TrainIndependentOfTest ==
    stage \in {"build", "evaluate", "evaluated"} =>
        \A c \in {Num(v) : v \in 0..(MaxWp + 1)} :
            /\ LstmTrainX(Overwritten(Values(X), LastTrainRowX, c)) = X_train_lstm
            /\ LstmTrainY(Values(X), Overwritten(Values(y), LastTrainRowY, c))
                  = y_train_lstm

\* C22: the left join onto train keeps one row per row of train: the merged
\* frame has as many rows as train, and its row i holds the cells of row i
\* of train, whatever the forecast tables hold.
C22_OneRowPerTrainRow ==
    stage = "lag" =>
        /\ NRows(df) = NRows(train)
        /\ \A i \in 1..NRows(train) : \A c \in Range(train.cols) :
              df.rows[i][c] = train.rows[i][c]

\* C23: the suffix given to a forecast file's columns names the farm of
\* that file: every column of windforecasts_wf<n>.csv other than date and
\* hors is renamed to <column>_wf<n>, whichever files the folder holds.
C23_SuffixNamesFarm ==
    stage # "load" =>
        \A i \in 1..Len(wf_files) :
            \A p \in 1..Len(wf_files[i].csv.cols) :
                wf_files[i].csv.cols[p] \notin Range(MergeKeys) =>
                    wf_dfs[i].cols[p] =
                        wf_files[i].csv.cols[p] \o "_wf" \o ToString(wf_files[i].num)

\* C21: the samples on which the search scored the configurations (the
\* X_test_lstm the tuning cell left behind) and the samples on which the
\* final cell evaluates the recurrent model (the X_test_lstm it assigns)
\* have no sample in common.
C21_SearchSamplesNotEvaluated ==
    [][(stage = "split_lstm" /\ best_params # Unbound) =>
          Range(X_test_lstm) \cap Range(X_test_lstm') = {}]_vars

\* C24: the build step of the final cell never fails on best_params and
\* always ends with a valid triple: the defaults when the tuning cell was
\* never run, the triple kept by the search when it was, whatever the
\* search's outcome.
C24_BuildGetsValidTriple ==
    [][stage = "build" =>
          /\ ~(stage' = "failed" /\ error' = "TypeError")
          /\ <<units', dropout', epochs'>> =
                 IF best_params = Unbound THEN DefaultParams ELSE best_params
          /\ <<units', dropout', epochs'>> \in Range(Grid)]_vars

\* The cell is a number of the closed interval [0, 1].
InUnit(c) == c[2] # 0 /\ ~RatLess(c, Num(0)) /\ ~RatLess(Num(1), c)

\* The array s is the array m with every column scaled by its own minimum
\* and maximum: each cell of m is min + s * (max - min) of its column, and
\* a column that is not constant has a 0 and a 1 in s.
ScaledByOwnRange(m, s) ==
    /\ Len(s) = Len(m)
    /\ \A j \in 1..Len(m[1]) :
          LET mn == ColMin(ArrayColumn(m, j))
              mx == ColMax(ArrayColumn(m, j))
          IN  /\ \A i \in 1..Len(m) :
                    m[i][j] = RatAdd(mn, RatMul(s[i][j], RatSub(mx, mn)))
              /\ mn # mx => {Num(0), Num(1)} \subseteq Range(ArrayColumn(s, j))
              /\ mn = mx => Range(ArrayColumn(s, j)) = {Num(0)}

\* C25: inputs and target are scaled to [0, 1] before windowing, each
\* column of X by its own minimum and maximum and y by its own: every
\* value of every sample and every target, in the training and in the test
\* part, lies in [0, 1].
C25_ScaledToUnitInterval ==
    stage \in {"build", "evaluate", "evaluated"} =>
        /\ ScaledByOwnRange(Values(X), X_scaled)
        /\ ScaledByOwnRange(Values(y), y_scaled)
        /\ X_train_lstm \o X_test_lstm = X_lstm
        /\ y_train_lstm \o y_test_lstm = y_lstm
        /\ \A k \in 1..Len(X_lstm) :
              \A r \in 1..Len(X_lstm[k]) : \A j \in 1..Len(X_lstm[k][r]) :
                  InUnit(X_lstm[k][r][j])
        /\ \A k \in 1..Len(y_lstm) : InUnit(y_lstm[k][1])

C25_Witness ==
    /\ stage = "build"
    /\ Len(X_train_lstm) >= 2
    /\ Len(X_test_lstm) >= 1
    /\ \E k \in 1..Len(X_test_lstm) : \E j \in 1..Len(X_test_lstm[k][3]) :
          X_test_lstm[k][3][j] = Num(1)
    /\ \E k \in 1..Len(X_train_lstm) : \E j \in 1..Len(X_train_lstm[k][1]) :
          /\ RatLess(Num(0), X_train_lstm[k][1][j])
          /\ RatLess(X_train_lstm[k][1][j], Num(1))
    /\ {Num(0), Num(1)} \subseteq {y_lstm[k][1] : k \in 1..Len(y_lstm)}
    /\ \E j \in 1..Len(X_scaled[1]) :
          Range(ArrayColumn(X_scaled, j)) = {Num(0)}

====
